---- MODULE Spec2Model ----
(***************************************************************************)
(* Model of the NFT registry canister nfts_backend (src/nfts_backend/src/  *)
(* lib.rs): the collection registry, the token ledger with its transfer,   *)
(* approval and burn protocol, the transaction counter and the             *)
(* pre_upgrade / post_upgrade persistence cycle.                           *)
(*                                                                         *)
(* One canister message is processed at a time.  An update or query call   *)
(* is one action: it evaluates the handler on the current state and leaves *)
(* the outcome in `reply` (a value, or the panic message of a trap; a trap *)
(* leaves the state as it was before the message).  `last` is the message  *)
(* that was processed and `pre` the state it was processed on.  Return     *)
(* hands the reply to the caller and makes the canister ready again.       *)
(***************************************************************************)
EXTENDS Integers, Sequences, FiniteSets, TLC

\* ------------------------------------------------------------------ bounds
MaxChanges == 2         \* calls that change the state, in one behaviour
MaxCollections == 2     \* insert_collection stops at this many collections
SavedTxid == 5          \* the counter of the saved state SavedTwoTokens

\* --------------------------------------------------------- identities, ids
ANONYMOUS == 0                          \* Principal::anonymous()
Principals == {ANONYMOUS, 1, 2}         \* the anonymous identity and two real ones
CollectionIds == 1..MaxCollections      \* collection ids used as arguments
TokenIds == {1, 2}                      \* token ids used as arguments
Names == {"chess", "dao"}               \* values of Collection.name
Symbols == {"CHS", "DAO"}               \* values of Collection.symbol
Logos == {[extension |-> "Png", data |-> <<>>], [extension |-> "Jpg", data |-> <<7>>]}

None == <<>>                            \* Option::None
Some(p) == <<p>>                        \* Option::Some(p)

\* ------------------------------------------------------------------- state
VARIABLES
    collections,    \* State.collections : collection id -> Collection
    txid,           \* State.txid
    pc,             \* "idle": ready for a message; "replied": a reply is on its way
    last,           \* the message processed last: [op, caller, args]
    reply,          \* its outcome: [status, value]
    pre,            \* the state the message was processed on
    receipts,       \* greatest transaction id returned to a caller so far
    changes         \* number of calls so far that changed the state

vars == <<collections, txid, pc, last, reply, pre, receipts, changes>>

\* ---------------------------------------------------------------- data model
\* struct Nft (metadata and content are never read or written by a handler)
Nft(id, owner, approved) == [id |-> id, owner |-> owner, approved |-> approved]

\* struct Collection
Collection(name, logo, symbol, nfts, custodians, operators) ==
    [name |-> name, logo |-> logo, symbol |-> symbol,
     nfts |-> nfts, custodians |-> custodians, operators |-> operators]

\* struct State
State(cs, n) == [collections |-> cs, txid |-> n]

EmptyMap == <<>>                        \* HashMap::default()

\* State::default()
DefaultState == State(EmptyMap, 0)

\* Logo::default(), String::default()
DefaultLogo == [extension |-> "Png", data |-> <<>>]

\* HashMap::insert / Entry: the map m with key k bound to v
MapInsert(m, k, v) == [x \in DOMAIN m \cup {k} |-> IF x = k THEN v ELSE m[x]]

\* operators.get(&p).map(|s| s.contains(&q)).unwrap_or(false)
OperatorsContain(operators, p, q) ==
    IF p \in DOMAIN operators THEN q \in operators[p] ELSE FALSE

\* ------------------------------------------------------- outcome of a call
\* A handler that returns v, leaving the state (cs, n)
Ok(cs, n, v) == [collections |-> cs, txid |-> n, status |-> "ok", value |-> v]

\* panic!(msg) / expect(msg) with the state (cs, n) as the handler left it
Trap(cs, n, msg) == [collections |-> cs, txid |-> n, status |-> msg, value |-> None]

\* next_txid advancing the counter by two
next_txid_twice(n) == n + 2

\* State::next_txid: self.txid += 1; self.txid
next_txid(n) == n + 1

\* ------------------------------------------------------------ update calls
InsertCollection(name, logo, symbol) == [name |-> name, logo |-> logo, symbol |-> symbol]

\* the InsertCollection arguments tried
NewCollections == {InsertCollection("chess", DefaultLogo, "CHS"),
                   InsertCollection("dao", [extension |-> "Jpg", data |-> <<7>>], "DAO")}

\* insert_collection taking the number of collections itself as the new id
insert_collection_at_len(collection) ==
    LET id == Cardinality(DOMAIN collections)
    IN  Ok(MapInsert(collections, id,
                     Collection(collection.name, collection.logo, collection.symbol,
                                EmptyMap, {}, EmptyMap)),
           txid, Some(id))

insert_collection_call(collection) ==
    LET id == Cardinality(DOMAIN collections) + 1
    IN  Ok(MapInsert(collections, id,
                     Collection(collection.name, collection.logo, collection.symbol,
                                EmptyMap, {}, EmptyMap)),
           txid, Some(id))

set_name_of_collection_call(caller, collection_id, name) ==
    IF collection_id \notin DOMAIN collections
    THEN Trap(collections, txid, "invalid collection id")
    ELSE IF caller \in collections[collection_id].custodians
         THEN Ok([collections EXCEPT ![collection_id].name = name], txid, None)
         ELSE Trap(collections, txid, "unauthorized")

\* set_symbol_of_collection storing the symbol in the name field
set_symbol_of_collection_writing_name(caller, collection_id, symbol) ==
    IF collection_id \notin DOMAIN collections
    THEN Trap(collections, txid, "invalid collection id")
    ELSE IF caller \in collections[collection_id].custodians
         THEN Ok([collections EXCEPT ![collection_id].name = symbol], txid, None)
         ELSE Trap(collections, txid, "unauthorized")

set_symbol_of_collection_call(caller, collection_id, symbol) ==
    IF collection_id \notin DOMAIN collections
    THEN Trap(collections, txid, "invalid collection id")
    ELSE IF caller \in collections[collection_id].custodians
         THEN Ok([collections EXCEPT ![collection_id].symbol = symbol], txid, None)
         ELSE Trap(collections, txid, "unauthorized")

set_logo_of_collection_call(caller, collection_id, logo) ==
    IF collection_id \notin DOMAIN collections
    THEN Trap(collections, txid, "invalid collection id")
    ELSE IF caller \in collections[collection_id].custodians
         THEN Ok([collections EXCEPT ![collection_id].logo = logo], txid, None)
         ELSE Trap(collections, txid, "unauthorized")

\* transfer_from_to without `nft.approved = None`
transfer_from_to_keeping_approval(caller, collection_id, token_id, from, to) ==
    IF to = ANONYMOUS
    THEN Trap(collections, txid, "zero address")
    ELSE IF collection_id \notin DOMAIN collections
    THEN Trap(collections, txid, "invalid collection id")
    ELSE LET collection == collections[collection_id] IN
    IF token_id \notin DOMAIN collection.nfts
    THEN Trap(collections, txid, "invalid token id")
    ELSE LET nft == collection.nfts[token_id] IN
    IF /\ nft.owner # caller
       /\ nft.approved # Some(caller)
       /\ ~OperatorsContain(collection.operators, from, caller)
       /\ caller \notin collection.custodians
    THEN Trap(collections, txid, "unauthorized")
    ELSE IF nft.owner # from
    THEN Trap(collections, txid, "other")
    ELSE LET moved == [nft EXCEPT !.owner = to]
             n == next_txid(txid)
         IN  Ok([collections EXCEPT ![collection_id].nfts[token_id] = moved], n, Some(n))

\* transfer_from_to with `nft.approved = None` moved before the check of `from`
transfer_from_to_clearing_first(caller, collection_id, token_id, from, to) ==
    IF to = ANONYMOUS
    THEN Trap(collections, txid, "zero address")
    ELSE IF collection_id \notin DOMAIN collections
    THEN Trap(collections, txid, "invalid collection id")
    ELSE LET collection == collections[collection_id] IN
    IF token_id \notin DOMAIN collection.nfts
    THEN Trap(collections, txid, "invalid token id")
    ELSE LET nft == collection.nfts[token_id]
             cleared == [collections EXCEPT ![collection_id].nfts[token_id].approved = None]
         IN
    IF /\ nft.owner # caller
       /\ nft.approved # Some(caller)
       /\ ~OperatorsContain(collection.operators, from, caller)
       /\ caller \notin collection.custodians
    THEN Trap(collections, txid, "unauthorized")
    ELSE IF nft.owner # from
    THEN Trap(cleared, txid, "other")
    ELSE LET n == next_txid(txid)
         IN  Ok([cleared EXCEPT ![collection_id].nfts[token_id].owner = to], n, Some(n))

\* transfer_from_to comparing `from` with the owner before authorizing the caller
transfer_from_to_checking_owner_first(caller, collection_id, token_id, from, to) ==
    IF to = ANONYMOUS
    THEN Trap(collections, txid, "zero address")
    ELSE IF collection_id \notin DOMAIN collections
    THEN Trap(collections, txid, "invalid collection id")
    ELSE LET collection == collections[collection_id] IN
    IF token_id \notin DOMAIN collection.nfts
    THEN Trap(collections, txid, "invalid token id")
    ELSE LET nft == collection.nfts[token_id] IN
    IF nft.owner # from
    THEN Trap(collections, txid, "other")
    ELSE IF /\ nft.owner # caller
            /\ nft.approved # Some(caller)
            /\ ~OperatorsContain(collection.operators, from, caller)
            /\ caller \notin collection.custodians
    THEN Trap(collections, txid, "unauthorized")
    ELSE LET moved == [nft EXCEPT !.approved = None, !.owner = to]
             n == next_txid(txid)
         IN  Ok([collections EXCEPT ![collection_id].nfts[token_id] = moved], n, Some(n))

transfer_from_to_call(caller, collection_id, token_id, from, to) ==
    IF to = ANONYMOUS
    THEN Trap(collections, txid, "zero address")
    ELSE IF collection_id \notin DOMAIN collections
    THEN Trap(collections, txid, "invalid collection id")
    ELSE LET collection == collections[collection_id] IN
    IF token_id \notin DOMAIN collection.nfts
    THEN Trap(collections, txid, "invalid token id")
    ELSE LET nft == collection.nfts[token_id] IN
    IF /\ nft.owner # caller
       /\ nft.approved # Some(caller)
       /\ ~OperatorsContain(collection.operators, from, caller)
       /\ caller \notin collection.custodians
    THEN Trap(collections, txid, "unauthorized")
    ELSE IF nft.owner # from
    THEN Trap(collections, txid, "other")
    ELSE LET moved == [nft EXCEPT !.approved = None, !.owner = to]
             n == next_txid(txid)
         IN  Ok([collections EXCEPT ![collection_id].nfts[token_id] = moved], n, Some(n))

\* insert_custodian_into_collection returning whether the custodian is in the set
\* after the insertion
insert_custodian_reporting_membership(caller, collection_id, custodian) ==
    IF collection_id \notin DOMAIN collections
    THEN Trap(collections, txid, "invalid collection id")
    ELSE LET custodians == collections[collection_id].custodians IN
         IF caller \in custodians
         THEN Ok([collections EXCEPT ![collection_id].custodians = custodians \cup {custodian}],
                 txid, Some(custodian \in custodians \cup {custodian}))
         ELSE Trap(collections, txid, "unauthorized")

\* insert_custodian_into_collection without the test of the caller
insert_custodian_by_anyone(caller, collection_id, custodian) ==
    IF collection_id \notin DOMAIN collections
    THEN Trap(collections, txid, "invalid collection id")
    ELSE LET custodians == collections[collection_id].custodians IN
         Ok([collections EXCEPT ![collection_id].custodians = custodians \cup {custodian}],
            txid, Some(custodian \notin custodians))

insert_custodian_into_collection_call(caller, collection_id, custodian) ==
    IF collection_id \notin DOMAIN collections
    THEN Trap(collections, txid, "invalid collection id")
    ELSE LET custodians == collections[collection_id].custodians IN
         IF caller \in custodians
         THEN Ok([collections EXCEPT ![collection_id].custodians = custodians \cup {custodian}],
                 txid, Some(custodian \notin custodians))
         ELSE Trap(collections, txid, "unauthorized")

remove_custodian_from_collection_call(caller, collection_id, custodian) ==
    IF collection_id \notin DOMAIN collections
    THEN Trap(collections, txid, "invalid collection id")
    ELSE LET custodians == collections[collection_id].custodians IN
         IF caller \in custodians
         THEN Ok([collections EXCEPT ![collection_id].custodians = custodians \ {custodian}],
                 txid, Some(custodian \in custodians))
         ELSE Trap(collections, txid, "unauthorized")

approve_call(caller, collection_id, token_id, user) ==
    IF collection_id \notin DOMAIN collections
    THEN Trap(collections, txid, "invalid collection id")
    ELSE LET collection == collections[collection_id] IN
    IF token_id \notin DOMAIN collection.nfts
    THEN Trap(collections, txid, "invalid token id")
    ELSE LET nft == collection.nfts[token_id] IN
    IF /\ nft.owner # caller
       /\ nft.approved # Some(caller)
       /\ ~OperatorsContain(collection.operators, user, caller)
       /\ caller \notin collection.custodians
    THEN Trap(collections, txid, "unauthorized")
    ELSE LET n == next_txid(txid)
         IN  Ok([collections EXCEPT ![collection_id].nfts[token_id].approved = Some(user)],
                n, Some(n))

\* set_approval_for_all whose `operators.clear()` clears the whole operator map
set_approval_for_all_clearing_map(caller, collection_id, operator, is_approved) ==
    IF collection_id \notin DOMAIN collections
    THEN Trap(collections, txid, "invalid collection id")
    ELSE LET collection == collections[collection_id]
             entry == IF caller \in DOMAIN collection.operators
                      THEN collection.operators
                      ELSE MapInsert(collection.operators, caller, {})
             operators == entry[caller]
             after == IF operator = caller THEN collection.operators
                      ELSE IF operator = ANONYMOUS
                      THEN IF ~is_approved THEN EmptyMap ELSE entry
                      ELSE IF is_approved
                      THEN MapInsert(entry, caller, operators \cup {operator})
                      ELSE MapInsert(entry, caller, operators \ {operator})
             n == next_txid(txid)
         IN  Ok([collections EXCEPT ![collection_id].operators = after], n, Some(n))

\* set_approval_for_all advancing the counter only when it changes the operators
set_approval_for_all_counting_changes(caller, collection_id, operator, is_approved) ==
    IF collection_id \notin DOMAIN collections
    THEN Trap(collections, txid, "invalid collection id")
    ELSE LET collection == collections[collection_id]
             entry == IF caller \in DOMAIN collection.operators
                      THEN collection.operators
                      ELSE MapInsert(collection.operators, caller, {})
             operators == entry[caller]
             updated == IF operator = ANONYMOUS
                        THEN IF ~is_approved THEN {} ELSE operators
                        ELSE IF is_approved
                             THEN operators \cup {operator}
                             ELSE operators \ {operator}
             after == IF operator # caller
                      THEN MapInsert(entry, caller, updated)
                      ELSE collection.operators
             n == IF updated = operators \/ operator = caller
                  THEN txid ELSE next_txid(txid)
         IN  Ok([collections EXCEPT ![collection_id].operators = after], n, Some(n))

set_approval_for_all_call(caller, collection_id, operator, is_approved) ==
    IF collection_id \notin DOMAIN collections
    THEN Trap(collections, txid, "invalid collection id")
    ELSE LET collection == collections[collection_id]
             \* collection.operators.entry(caller).or_default()
             entry == IF caller \in DOMAIN collection.operators
                      THEN collection.operators
                      ELSE MapInsert(collection.operators, caller, {})
             operators == entry[caller]
             updated == IF operator = ANONYMOUS
                        THEN IF ~is_approved THEN {} ELSE operators
                        ELSE IF is_approved
                             THEN operators \cup {operator}
                             ELSE operators \ {operator}
             after == IF operator # caller
                      THEN MapInsert(entry, caller, updated)
                      ELSE collection.operators
             n == next_txid(txid)
         IN  Ok([collections EXCEPT ![collection_id].operators = after], n, Some(n))

\* burn that also lets a custodian of the collection burn
burn_by_custodian(caller, collection_id, token_id) ==
    IF collection_id \notin DOMAIN collections
    THEN Trap(collections, txid, "invalid token id")
    ELSE LET collection == collections[collection_id] IN
    IF token_id \notin DOMAIN collection.nfts
    THEN Trap(collections, txid, "invalid token id")
    ELSE LET nft == collection.nfts[token_id] IN
    IF nft.owner # caller /\ caller \notin collection.custodians
    THEN Trap(collections, txid, "unauthorized")
    ELSE LET n == next_txid(txid)
         IN  Ok([collections EXCEPT ![collection_id].nfts[token_id].owner = ANONYMOUS],
                n, Some(n))

\* burn that removes the token's record from the ledger
burn_removing_record(caller, collection_id, token_id) ==
    IF collection_id \notin DOMAIN collections
    THEN Trap(collections, txid, "invalid token id")
    ELSE LET collection == collections[collection_id] IN
    IF token_id \notin DOMAIN collection.nfts
    THEN Trap(collections, txid, "invalid token id")
    ELSE LET nft == collection.nfts[token_id] IN
    IF nft.owner # caller
    THEN Trap(collections, txid, "unauthorized")
    ELSE LET n == next_txid(txid)
             kept == [t \in DOMAIN collection.nfts \ {token_id} |-> collection.nfts[t]]
         IN  Ok([collections EXCEPT ![collection_id].nfts = kept], n, Some(n))

burn_call(caller, collection_id, token_id) ==
    IF collection_id \notin DOMAIN collections
    THEN Trap(collections, txid, "invalid token id")
    ELSE LET collection == collections[collection_id] IN
    IF token_id \notin DOMAIN collection.nfts
    THEN Trap(collections, txid, "invalid token id")
    ELSE LET nft == collection.nfts[token_id] IN
    IF nft.owner # caller
    THEN Trap(collections, txid, "unauthorized")
    ELSE LET n == next_txid(txid)
         IN  Ok([collections EXCEPT ![collection_id].nfts[token_id].owner = ANONYMOUS],
                n, Some(n))

\* ------------------------------------------------------------- query calls
name_of_collection_call(collection_id) ==
    Ok(collections, txid,
       IF collection_id \in DOMAIN collections
       THEN Some(collections[collection_id].name) ELSE None)

symbol_of_collection_call(collection_id) ==
    Ok(collections, txid,
       IF collection_id \in DOMAIN collections
       THEN Some(collections[collection_id].symbol) ELSE None)

logo_of_collection_call(collection_id) ==
    Ok(collections, txid,
       IF collection_id \in DOMAIN collections
       THEN Some(collections[collection_id].logo) ELSE None)

balance_of_user_call(collection_id, principal) ==
    Ok(collections, txid,
       IF collection_id \in DOMAIN collections
       THEN LET nfts == collections[collection_id].nfts
            IN  Some(Cardinality({t \in DOMAIN nfts : nfts[t].owner = principal}))
       ELSE Some(0))

owner_of_nft_call(collection_id, token_id) ==
    Ok(collections, txid,
       IF collection_id \in DOMAIN collections
       THEN LET nfts == collections[collection_id].nfts
                found == {t \in DOMAIN nfts : nfts[t].id = token_id}
            IN  IF found = {} THEN None ELSE Some(nfts[CHOOSE t \in found : TRUE].owner)
       ELSE None)

RECURSIVE SumOfLens(_, _)
\* total += collection.nfts.len() over the collections with the ids in ids
SumOfLens(cs, ids) ==
    IF ids = {} THEN 0
    ELSE LET id == CHOOSE x \in ids : TRUE
         IN  Cardinality(DOMAIN cs[id].nfts) + SumOfLens(cs, ids \ {id})

total_supply_call == Ok(collections, txid, Some(SumOfLens(collections, DOMAIN collections)))

total_supply_of_collection_call(collection_id) ==
    Ok(collections, txid,
       IF collection_id \in DOMAIN collections
       THEN Some(Cardinality(DOMAIN collections[collection_id].nfts)) ELSE None)

is_custodian_of_collection_call(collection_id, custodian) ==
    IF collection_id \notin DOMAIN collections
    THEN Trap(collections, txid, "invalid collection id")
    ELSE Ok(collections, txid, Some(custodian \in collections[collection_id].custodians))

\* is_approved_for_all answering whether the caller is an operator of `operator`
is_approved_for_all_swapped(caller, collection_id, operator) ==
    IF collection_id \notin DOMAIN collections
    THEN Trap(collections, txid, "invalid collection id")
    ELSE Ok(collections, txid,
            Some(OperatorsContain(collections[collection_id].operators, operator, caller)))

is_approved_for_all_call(caller, collection_id, operator) ==
    IF collection_id \notin DOMAIN collections
    THEN Trap(collections, txid, "invalid collection id")
    ELSE Ok(collections, txid,
            Some(OperatorsContain(collections[collection_id].operators, caller, operator)))

supported_interfaces_call ==
    Ok(collections, txid, Some(<<"Approval", "TransferNotification", "Burn">>))

\* ------------------------------------------------------------- persistence
\* serde_cbor writes a HashMap as a CBOR map (a sequence of key/value pairs), a
\* HashSet as a CBOR array, a struct as a map keyed by its field names and an
\* Option as null or the value.  The element order of a HashMap or HashSet is
\* not fixed by the code; the decoder does not depend on it, ascending order is
\* written here.
RECURSIVE SetToSeq(_)
SetToSeq(S) ==
    IF S = {} THEN <<>>
    ELSE LET m == CHOOSE x \in S : \A y \in S : x <= y
         IN  <<m>> \o SetToSeq(S \ {m})

SeqToSet(s) == {s[i] : i \in 1..Len(s)}

\* the keys of a map encoded as pairs
PairKeys(s) == {s[i][1] : i \in 1..Len(s)}

\* the encoded value of key k in the pairs s; a later pair wins
PairValue(s, k) ==
    LET i == CHOOSE i \in 1..Len(s) :
                /\ s[i][1] = k
                /\ \A j \in (i + 1)..Len(s) : s[j][1] # k
    IN  s[i][2]

\* Nft written without its approved field
SerializeNft_skipping_approved(nft) == [id |-> nft.id, owner |-> nft.owner, approved |-> None]

SerializeNft(nft) == [id |-> nft.id, owner |-> nft.owner, approved |-> nft.approved]
DeserializeNft(b) == Nft(b.id, b.owner, b.approved)

SerializeNfts(nfts) ==
    LET keys == SetToSeq(DOMAIN nfts)
    IN  [i \in 1..Len(keys) |-> <<keys[i], SerializeNft(nfts[keys[i]])>>]
DeserializeNfts(s) == [k \in PairKeys(s) |-> DeserializeNft(PairValue(s, k))]

SerializeOperators(operators) ==
    LET keys == SetToSeq(DOMAIN operators)
    IN  [i \in 1..Len(keys) |-> <<keys[i], SetToSeq(operators[keys[i]])>>]
DeserializeOperators(s) == [k \in PairKeys(s) |-> SeqToSet(PairValue(s, k))]

SerializeCollection(c) ==
    [name |-> c.name, logo |-> c.logo, symbol |-> c.symbol,
     nfts |-> SerializeNfts(c.nfts),
     custodians |-> SetToSeq(c.custodians),
     operators |-> SerializeOperators(c.operators)]

DeserializeCollection(b) ==
    Collection(b.name, b.logo, b.symbol,
               DeserializeNfts(b.nfts),
               SeqToSet(b.custodians),
               DeserializeOperators(b.operators))

SerializeCollections(cs) ==
    LET keys == SetToSeq(DOMAIN cs)
    IN  [i \in 1..Len(keys) |-> <<keys[i], SerializeCollection(cs[keys[i]])>>]
DeserializeCollections(s) ==
    [k \in PairKeys(s) |-> DeserializeCollection(PairValue(s, k))]

\* serde_cbor::to_vec(&state)
to_vec(state) ==
    [collections |-> SerializeCollections(state.collections), txid |-> state.txid]

\* serde_cbor::from_slice(&blob)
from_slice(blob) ==
    State(DeserializeCollections(blob.collections), blob.txid)

\* an extend that keeps the entry of a under a key that a and b share
Extend_keeping_existing(a, b) ==
    [k \in DOMAIN a \cup DOMAIN b |-> IF k \in DOMAIN a THEN a[k] ELSE b[k]]

\* HashMap::extend: the entries of b added to a, replacing equal keys
Extend(a, b) ==
    [k \in DOMAIN a \cup DOMAIN b |-> IF k \in DOMAIN b THEN b[k] ELSE a[k]]

\* post_upgrade without `borrowed.txid = deserialized_state.txid`
post_upgrade_keeping_txid(cs, n, blob) ==
    State(Extend(cs, from_slice(blob).collections), n)

\* #[post_upgrade]: the state (cs, n) after restoring blob into it
post_upgrade_call(cs, n, blob) ==
    LET deserialized_state == from_slice(blob)
    IN  State(Extend(cs, deserialized_state.collections), deserialized_state.txid)

\* #[pre_upgrade]: the blob saved for the state (cs, n)
pre_upgrade_call(cs, n) == to_vec(State(cs, n))

\* ------------------------------------------------------------ saved states
\* States an earlier run of the canister saved with pre_upgrade.
\* One collection holding token 1 of owner 1, with or without an approved
\* spender, a custodian and an operator of the owner:
SavedState(approved, custodians, operators) ==
    State(1 :> Collection("chess", DefaultLogo, "CHS",
                          1 :> Nft(1, 1, approved), custodians, operators),
          0)

\* and one collection holding two tokens of different owners, saved after five
\* transactions:
SavedTwoTokens ==
    State(1 :> Collection("chess", DefaultLogo, "CHS",
                          (1 :> Nft(1, 1, Some(2))) @@ (2 :> Nft(2, 2, None)),
                          {}, (2 :> {1}) @@ (1 :> {})),
          SavedTxid)

SavedStates ==
    {SavedState(a, c, o) : a \in {None, Some(2)}, c \in {{}, {2}},
                           o \in {EmptyMap, 1 :> {2}}}
    \cup {SavedTwoTokens}

\* ----------------------------------------------------------------- actions
NoCall == [op |-> "none", caller |-> ANONYMOUS, args |-> <<>>]
NoReply == [status |-> "none", value |-> None]
Call(op, caller, args) == [op |-> op, caller |-> caller, args |-> args]

\* the update calls that return the transaction id
ReceiptOps == {"transfer_from_to", "approve", "set_approval_for_all", "burn"}

\* The canister processes the message (op, caller, args) with outcome out.
Process(op, caller, args, out) ==
    /\ pc = "idle"
    /\ changes' = IF State(out.collections, out.txid) = State(collections, txid)
                  THEN changes ELSE changes + 1
    /\ changes' <= MaxChanges
    /\ collections' = out.collections
    /\ txid' = out.txid
    /\ reply' = [status |-> out.status, value |-> out.value]
    /\ last' = Call(op, caller, args)
    /\ pre' = State(collections, txid)
    /\ pc' = "replied"
    /\ UNCHANGED receipts

\* The reply reaches the caller; the canister is ready for the next message.
Return ==
    /\ pc = "replied"
    /\ pc' = "idle"
    /\ receipts' = IF /\ last.op \in ReceiptOps
                      /\ reply.status = "ok"
                      /\ reply.value[1] > receipts
                   THEN reply.value[1] ELSE receipts
    /\ last' = NoCall
    /\ reply' = NoReply
    /\ pre' = State(collections, txid)
    /\ UNCHANGED <<collections, txid, changes>>

\* Each handler below takes its message from any caller with any arguments.
insert_collection ==
    /\ pc = "idle"
    /\ Cardinality(DOMAIN collections) < MaxCollections
    /\ \E caller \in Principals, collection \in NewCollections :
          Process("insert_collection", caller, <<collection>>,
                  insert_collection_call(collection))

set_name_of_collection ==
    /\ pc = "idle"
    /\ \E caller \in Principals, collection_id \in CollectionIds, name \in Names :
          Process("set_name_of_collection", caller, <<collection_id, name>>,
                  set_name_of_collection_call(caller, collection_id, name))

set_symbol_of_collection ==
    /\ pc = "idle"
    /\ \E caller \in Principals, collection_id \in CollectionIds, symbol \in Symbols :
          Process("set_symbol_of_collection", caller, <<collection_id, symbol>>,
                  set_symbol_of_collection_call(caller, collection_id, symbol))

set_logo_of_collection ==
    /\ pc = "idle"
    /\ \E caller \in Principals, collection_id \in CollectionIds, logo \in Logos :
          Process("set_logo_of_collection", caller, <<collection_id, logo>>,
                  set_logo_of_collection_call(caller, collection_id, logo))

transfer_from_to ==
    /\ pc = "idle"
    /\ \E caller \in Principals, collection_id \in CollectionIds, token_id \in TokenIds,
          from \in Principals, to \in Principals :
          Process("transfer_from_to", caller, <<collection_id, token_id, from, to>>,
                  transfer_from_to_call(caller, collection_id, token_id, from, to))

insert_custodian_into_collection ==
    /\ pc = "idle"
    /\ \E caller \in Principals, collection_id \in CollectionIds, custodian \in Principals :
          Process("insert_custodian_into_collection", caller, <<collection_id, custodian>>,
                  insert_custodian_into_collection_call(caller, collection_id, custodian))

remove_custodian_from_collection ==
    /\ pc = "idle"
    /\ \E caller \in Principals, collection_id \in CollectionIds, custodian \in Principals :
          Process("remove_custodian_from_collection", caller, <<collection_id, custodian>>,
                  remove_custodian_from_collection_call(caller, collection_id, custodian))

approve ==
    /\ pc = "idle"
    /\ \E caller \in Principals, collection_id \in CollectionIds, token_id \in TokenIds,
          user \in Principals :
          Process("approve", caller, <<collection_id, token_id, user>>,
                  approve_call(caller, collection_id, token_id, user))

set_approval_for_all ==
    /\ pc = "idle"
    /\ \E caller \in Principals, collection_id \in CollectionIds, operator \in Principals,
          is_approved \in BOOLEAN :
          Process("set_approval_for_all", caller, <<collection_id, operator, is_approved>>,
                  set_approval_for_all_call(caller, collection_id, operator, is_approved))

burn ==
    /\ pc = "idle"
    /\ \E caller \in Principals, collection_id \in CollectionIds, token_id \in TokenIds :
          Process("burn", caller, <<collection_id, token_id>>,
                  burn_call(caller, collection_id, token_id))

\* The queries read no caller, except is_approved_for_all.
name_of_collection ==
    /\ pc = "idle"
    /\ \E collection_id \in CollectionIds :
          Process("name_of_collection", ANONYMOUS, <<collection_id>>,
                  name_of_collection_call(collection_id))

symbol_of_collection ==
    /\ pc = "idle"
    /\ \E collection_id \in CollectionIds :
          Process("symbol_of_collection", ANONYMOUS, <<collection_id>>,
                  symbol_of_collection_call(collection_id))

logo_of_collection ==
    /\ pc = "idle"
    /\ \E collection_id \in CollectionIds :
          Process("logo_of_collection", ANONYMOUS, <<collection_id>>,
                  logo_of_collection_call(collection_id))

balance_of_user ==
    /\ pc = "idle"
    /\ \E collection_id \in CollectionIds, principal \in Principals :
          Process("balance_of_user", ANONYMOUS, <<collection_id, principal>>,
                  balance_of_user_call(collection_id, principal))

owner_of_nft ==
    /\ pc = "idle"
    /\ \E collection_id \in CollectionIds, token_id \in TokenIds :
          Process("owner_of_nft", ANONYMOUS, <<collection_id, token_id>>,
                  owner_of_nft_call(collection_id, token_id))

total_supply ==
    /\ pc = "idle"
    /\ Process("total_supply", ANONYMOUS, <<>>, total_supply_call)

total_supply_of_collection ==
    /\ pc = "idle"
    /\ \E collection_id \in CollectionIds :
          Process("total_supply_of_collection", ANONYMOUS, <<collection_id>>,
                  total_supply_of_collection_call(collection_id))

is_custodian_of_collection ==
    /\ pc = "idle"
    /\ \E collection_id \in CollectionIds, custodian \in Principals :
          Process("is_custodian_of_collection", ANONYMOUS, <<collection_id, custodian>>,
                  is_custodian_of_collection_call(collection_id, custodian))

is_approved_for_all ==
    /\ pc = "idle"
    /\ \E caller \in Principals, collection_id \in CollectionIds, operator \in Principals :
          Process("is_approved_for_all", caller, <<collection_id, operator>>,
                  is_approved_for_all_call(caller, collection_id, operator))

supported_interfaces ==
    /\ pc = "idle"
    /\ Process("supported_interfaces", ANONYMOUS, <<>>, supported_interfaces_call)

\* An upgrade of the canister, which the platform runs as one step between two
\* messages: pre_upgrade saves the state of the running module to stable
\* memory, the module is replaced and its STATE starts again as
\* State::default(), and post_upgrade restores the saved blob into it.
upgrade ==
    /\ pc = "idle"
    /\ LET blob == pre_upgrade_call(collections, txid)
           restored == post_upgrade_call(DefaultState.collections, DefaultState.txid, blob)
       IN  /\ collections' = restored.collections
           /\ txid' = restored.txid
    /\ pc' = "replied"
    /\ last' = Call("upgrade", ANONYMOUS, <<>>)
    /\ reply' = [status |-> "ok", value |-> None]
    /\ pre' = State(collections, txid)
    /\ UNCHANGED <<receipts, changes>>

\* ------------------------------------------------------------ specification
\* A canister installed for the first time, or one upgraded from a run that saved
\* one of SavedStates.
Init ==
    /\ \E s \in {DefaultState} \cup
                {post_upgrade_call(DefaultState.collections, DefaultState.txid,
                                   pre_upgrade_call(saved.collections, saved.txid)) :
                    saved \in SavedStates} :
          /\ collections = s.collections
          /\ txid = s.txid
          /\ pre = s
    /\ pc = "idle"
    /\ last = NoCall
    /\ reply = NoReply
    /\ receipts = 0
    /\ changes = 0

Next ==
    \/ insert_collection
    \/ set_name_of_collection
    \/ set_symbol_of_collection
    \/ set_logo_of_collection
    \/ transfer_from_to
    \/ insert_custodian_into_collection
    \/ remove_custodian_from_collection
    \/ approve
    \/ set_approval_for_all
    \/ burn
    \/ name_of_collection
    \/ symbol_of_collection
    \/ logo_of_collection
    \/ balance_of_user
    \/ owner_of_nft
    \/ total_supply
    \/ total_supply_of_collection
    \/ is_custodian_of_collection
    \/ is_approved_for_all
    \/ supported_interfaces
    \/ upgrade
    \/ Return

Spec == Init /\ [][Next]_vars

\* A canister installed for the first time: the state is State::default(), and
\* every later state comes from calls and from upgrades of that canister.
InitFresh ==
    /\ collections = DefaultState.collections
    /\ txid = DefaultState.txid
    /\ pre = DefaultState
    /\ pc = "idle"
    /\ last = NoCall
    /\ reply = NoReply
    /\ receipts = 0
    /\ changes = 0

SpecFresh == InitFresh /\ [][Next]_vars

\* #[post_upgrade] run on the state as it is, whatever it holds, with the blob
\* that pre_upgrade wrote for one of SavedStates.
post_upgrade ==
    /\ pc = "idle"
    /\ \E saved \in SavedStates :
          LET blob == pre_upgrade_call(saved.collections, saved.txid)
              restored == post_upgrade_call(collections, txid, blob)
          IN  /\ collections' = restored.collections
              /\ txid' = restored.txid
              /\ last' = Call("post_upgrade", ANONYMOUS, <<blob>>)
    /\ pc' = "replied"
    /\ reply' = [status |-> "ok", value |-> None]
    /\ pre' = State(collections, txid)
    /\ UNCHANGED <<receipts, changes>>

NextRestore ==
    \/ Next
    \/ post_upgrade

\* The canister installed with an empty state, when the restore may run at any
\* time on the state it finds.
SpecRestore == InitFresh /\ [][NextRestore]_vars

\* ================================================================== claims
\* A call of op has been processed and its reply is on its way.
Replied(op) == pc = "replied" /\ last.op = op
Succeeded == reply.status = "ok"

\* the error kinds by the panic message that carries them
NotFound == {"invalid collection id", "invalid token id"}
Unauthorized == "unauthorized"
OwnerMismatch == "other"
InvalidDestination == "zero address"

\* the operator set of owner in collection c of the registry cs
OperatorSet(cs, c, owner) ==
    IF owner \in DOMAIN cs[c].operators THEN cs[c].operators[owner] ELSE {}

\* collection c and its token t exist in the registry cs
TokenExists(cs, c, t) == c \in DOMAIN cs /\ t \in DOMAIN cs[c].nfts

\* the number of tokens of collection c that p owns in the registry cs
Balance(cs, c, p) ==
    Cardinality({t \in DOMAIN cs[c].nfts : cs[c].nfts[t].owner = p})

RECURSIVE SumOfBalances(_, _)
\* the sum of balance_of_user(c, p) over the identities p in ps
SumOfBalances(c, ps) ==
    IF ps = {} THEN 0
    ELSE LET p == CHOOSE x \in ps : TRUE
         IN  balance_of_user_call(c, p).value[1] + SumOfBalances(c, ps \ {p})

\* the update and query calls of the public surface
UpdateOps == {"insert_collection", "set_name_of_collection", "set_symbol_of_collection",
              "set_logo_of_collection", "insert_custodian_into_collection",
              "remove_custodian_from_collection", "transfer_from_to", "approve",
              "set_approval_for_all", "burn"}
QueryOps == {"name_of_collection", "symbol_of_collection", "logo_of_collection",
             "balance_of_user", "owner_of_nft", "total_supply",
             "total_supply_of_collection", "is_custodian_of_collection",
             "is_approved_for_all", "supported_interfaces"}

\* C1: transfer_from_to on an existing collection and token succeeds exactly when
\* `to` is not anonymous, `from` is the token's owner and the caller is the owner,
\* the approved spender, an operator of `from` or a custodian; on success the
\* owner is `to`, the approval is None and the counter, one greater than before,
\* is returned.
C1_TransferContract ==
    Replied("transfer_from_to") =>
        LET caller == last.caller
            c == last.args[1]
            t == last.args[2]
            from == last.args[3]
            to == last.args[4]
        IN  TokenExists(pre.collections, c, t) =>
              LET nft == pre.collections[c].nfts[t]
                  permitted == \/ caller = nft.owner
                               \/ nft.approved = Some(caller)
                               \/ caller \in OperatorSet(pre.collections, c, from)
                               \/ caller \in pre.collections[c].custodians
              IN  /\ Succeeded <=> (to # ANONYMOUS /\ from = nft.owner /\ permitted)
                  /\ Succeeded =>
                       /\ collections[c].nfts[t].owner = to
                       /\ collections[c].nfts[t].approved = None
                       /\ txid = pre.txid + 1
                       /\ reply.value = Some(txid)

\* C1 witness: a caller who is not the owner has moved a token that had an
\* approved spender.
C1_Witness ==
    /\ Replied("transfer_from_to")
    /\ Succeeded
    /\ pre.collections[last.args[1]].nfts[last.args[2]].owner # last.caller
    /\ pre.collections[last.args[1]].nfts[last.args[2]].approved # None
    /\ collections[last.args[1]].nfts[last.args[2]].owner = last.args[4]

\* C2: approve on an existing collection and token succeeds exactly when the
\* caller is the token's owner, its approved spender, an operator of the token's
\* owner or a custodian, and is rejected as Unauthorized otherwise; on success
\* the approved spender is the given spender and the incremented counter is
\* returned.
C2_ApproveContract ==
    Replied("approve") =>
        LET caller == last.caller
            c == last.args[1]
            t == last.args[2]
            spender == last.args[3]
        IN  TokenExists(pre.collections, c, t) =>
              LET nft == pre.collections[c].nfts[t]
                  permitted == \/ caller = nft.owner
                               \/ nft.approved = Some(caller)
                               \/ caller \in OperatorSet(pre.collections, c, nft.owner)
                               \/ caller \in pre.collections[c].custodians
              IN  /\ Succeeded <=> permitted
                  /\ ~permitted => reply.status = Unauthorized
                  /\ Succeeded =>
                       /\ collections[c].nfts[t].approved = Some(spender)
                       /\ txid = pre.txid + 1
                       /\ reply.value = Some(txid)

\* C3: burn on an existing collection and token succeeds exactly when the caller
\* is the token's owner; any other caller, a custodian, an operator of the owner
\* and the approved spender included, is rejected as Unauthorized.  On success
\* the owner is anonymous, the token record is still in the ledger and the
\* counter, one greater than before, is returned.
C3_BurnContract ==
    Replied("burn") =>
        LET caller == last.caller
            c == last.args[1]
            t == last.args[2]
        IN  TokenExists(pre.collections, c, t) =>
              LET nft == pre.collections[c].nfts[t]
              IN  /\ Succeeded <=> caller = nft.owner
                  /\ caller # nft.owner => reply.status = Unauthorized
                  /\ Succeeded =>
                       /\ TokenExists(collections, c, t)
                       /\ collections[c].nfts[t].owner = ANONYMOUS
                       /\ txid = pre.txid + 1
                       /\ reply.value = Some(txid)

\* C3 witness: the owner has burnt a token of a collection that has a custodian.
C3_Witness ==
    /\ Replied("burn")
    /\ Succeeded
    /\ pre.collections[last.args[1]].nfts[last.args[2]].owner # ANONYMOUS
    /\ pre.collections[last.args[1]].custodians # {}
    /\ collections[last.args[1]].nfts[last.args[2]].owner = ANONYMOUS

\* C4: burning is permanent: a token owned by the anonymous identity (which it
\* can only have become through burn: no saved state holds such a token and no
\* transfer accepts the anonymous destination) is still owned by it after any
\* public operation by any caller.
C4_BurnIsPermanent ==
    (pc = "replied" /\ last.op \in UpdateOps \cup QueryOps) =>
        \A c \in DOMAIN pre.collections : \A t \in DOMAIN pre.collections[c].nfts :
            pre.collections[c].nfts[t].owner = ANONYMOUS =>
                /\ TokenExists(collections, c, t)
                /\ collections[c].nfts[t].owner = ANONYMOUS

\* C5: right after a successful burn the token's approved spender is None.
C5_BurnClearsApproval ==
    (Replied("burn") /\ Succeeded) =>
        collections[last.args[1]].nfts[last.args[2]].approved = None

\* C6: set_approval_for_all on an existing collection changes only the caller's
\* own operator set in it: unchanged when the operator is the caller, unchanged
\* for (anonymous, true), emptied for (anonymous, false), otherwise the operator
\* is a member afterwards exactly when is_approved and the other members stay.
\* Every other operator set, every token and every custodian set is unchanged.
C6_SetApprovalForAll ==
    Replied("set_approval_for_all") =>
        LET caller == last.caller
            c == last.args[1]
            operator == last.args[2]
            is_approved == last.args[3]
        IN  c \in DOMAIN pre.collections =>
              LET before == OperatorSet(pre.collections, c, caller)
                  after == OperatorSet(collections, c, caller)
              IN  /\ after = IF operator = caller THEN before
                             ELSE IF operator = ANONYMOUS
                             THEN IF is_approved THEN before ELSE {}
                             ELSE IF is_approved THEN before \cup {operator}
                             ELSE before \ {operator}
                  /\ DOMAIN collections = DOMAIN pre.collections
                  /\ \A d \in DOMAIN collections :
                       /\ collections[d].nfts = pre.collections[d].nfts
                       /\ collections[d].custodians = pre.collections[d].custodians
                       /\ \A p \in Principals :
                            (d # c \/ p # caller) =>
                                OperatorSet(collections, d, p) =
                                    OperatorSet(pre.collections, d, p)

\* C6 witness: a caller has revoked all its operators (anonymous, false) while
\* another identity of the collection has operators of its own.
C6_Witness ==
    /\ Replied("set_approval_for_all")
    /\ last.args[1] \in DOMAIN pre.collections
    /\ last.args[2] = ANONYMOUS
    /\ last.args[3] = FALSE
    /\ last.caller # ANONYMOUS
    /\ OperatorSet(pre.collections, last.args[1], last.caller) # {}
    /\ OperatorSet(collections, last.args[1], last.caller) = {}
    /\ \E p \in Principals \ {last.caller} :
          OperatorSet(collections, last.args[1], p) # {}

\* C7 as stated: every successful update call advances the counter by exactly
\* one; every failed call and every query leaves it unchanged.
C7_CounterOnEveryUpdate ==
    (pc = "replied" /\ last.op \in UpdateOps \cup QueryOps) =>
        txid = IF last.op \in UpdateOps /\ Succeeded THEN pre.txid + 1 ELSE pre.txid

\* C7 as amended: the counter advances by exactly one on every successful
\* transfer_from_to, approve, set_approval_for_all and burn, and is unchanged by
\* every other call: the successful collection and custodian updates, every
\* failed call and every query.
C7_CounterOnReceiptCalls ==
    (pc = "replied" /\ last.op \in UpdateOps \cup QueryOps) =>
        txid = IF /\ last.op \in {"transfer_from_to", "approve",
                                  "set_approval_for_all", "burn"}
                  /\ Succeeded
               THEN pre.txid + 1 ELSE pre.txid

\* C7 witness: a custodian has renamed a collection and the counter is as before.
C7_Witness ==
    /\ Replied("set_name_of_collection")
    /\ Succeeded
    /\ collections[last.args[1]].name # pre.collections[last.args[1]].name
    /\ txid = pre.txid

\* C8: the counter never decreases over a call or an upgrade, never falls below
\* a transaction id already returned, and every transaction id returned is
\* greater than every one returned earlier, upgrades in between included.
C8_CounterIncreases ==
    /\ receipts <= txid
    /\ pc = "replied" => txid >= pre.txid
    /\ (/\ pc = "replied"
        /\ last.op \in {"transfer_from_to", "approve", "set_approval_for_all", "burn"}
        /\ Succeeded)
       => reply.value[1] > receipts

\* C8 witness: an upgrade has completed after a transaction id was returned.
C8_Witness ==
    /\ Replied("upgrade")
    /\ receipts > 0
    /\ txid = receipts

\* C9: an upgrade (pre_upgrade, a fresh state, post_upgrade) of any reachable
\* state yields the same collections, with the same metadata, tokens, custodian
\* sets and operator maps, and the same counter.
C9_RoundTrip ==
    Replied("upgrade") => State(collections, txid) = pre

\* C9 witness: a state with two tokens, an approval, an operator entry with an
\* empty set and a counter above zero has gone through an upgrade.
C9_Witness ==
    /\ Replied("upgrade")
    /\ txid = pre.txid
    /\ txid > 0
    /\ \E c \in DOMAIN collections :
          /\ \E t \in DOMAIN collections[c].nfts : collections[c].nfts[t].approved # None
          /\ \E p \in DOMAIN collections[c].operators : collections[c].operators[p] = {}
          /\ \E p \in DOMAIN collections[c].operators : collections[c].operators[p] # {}

\* C10: a call that fails leaves the whole state as it was: collections, their
\* metadata, tokens, custodian sets and operator maps (the keys of the maps
\* included) and the counter.
C10_NoPartialMutation ==
    (pc = "replied" /\ last.op \in UpdateOps \cup QueryOps /\ ~Succeeded) =>
        State(collections, txid) = pre

\* C10 witness: an authorized caller's transfer of a token with an approved
\* spender has failed on `from`.
C10_Witness ==
    /\ Replied("transfer_from_to")
    /\ reply.status = OwnerMismatch
    /\ pre.collections[last.args[1]].nfts[last.args[2]].approved # None
    /\ collections = pre.collections

\* C11: insert_custodian_into_collection and remove_custodian_from_collection
\* fail as NotFound on an unknown collection and as Unauthorized for a caller
\* outside the custodian set; for a custodian they succeed, insert returning
\* true exactly when the identity was absent (it is present afterwards), remove
\* returning true exactly when it was present (it is absent afterwards).
C11_CustodianUpdates ==
    (pc = "replied" /\ last.op \in {"insert_custodian_into_collection",
                                   "remove_custodian_from_collection"}) =>
        LET caller == last.caller
            c == last.args[1]
            p == last.args[2]
        IN  IF c \notin DOMAIN pre.collections THEN reply.status \in NotFound
            ELSE LET before == pre.collections[c].custodians
                     after == collections[c].custodians
                 IN  IF caller \notin before THEN reply.status = Unauthorized
                     ELSE /\ Succeeded
                          /\ last.op = "insert_custodian_into_collection" =>
                               /\ reply.value = Some(p \notin before)
                               /\ after = before \cup {p}
                          /\ last.op = "remove_custodian_from_collection" =>
                               /\ reply.value = Some(p \in before)
                               /\ after = before \ {p}

\* C11 witness: a custodian has inserted an identity that was a custodian
\* already, and false is returned.
C11_Witness ==
    /\ Replied("insert_custodian_into_collection")
    /\ Succeeded
    /\ last.args[2] \in pre.collections[last.args[1]].custodians
    /\ reply.value = Some(FALSE)

\* C12: in every state reachable from the empty initial state by calls and
\* upgrades, insert_collection succeeds for every caller, returns the number of
\* existing collections plus one, which was not a key before; the new collection
\* has the submitted name, logo and symbol, no tokens, no custodians and no
\* operators, and every collection that existed before is unchanged.
C12_InsertCollection ==
    /\ DOMAIN collections = 1..Cardinality(DOMAIN collections)
    /\ Replied("insert_collection") =>
        LET id == Cardinality(DOMAIN pre.collections) + 1
            collection == last.args[1]
        IN  /\ Succeeded
            /\ reply.value = Some(id)
            /\ id \notin DOMAIN pre.collections
            /\ DOMAIN collections = DOMAIN pre.collections \cup {id}
            /\ collections[id] = Collection(collection.name, collection.logo,
                                            collection.symbol, EmptyMap, {}, EmptyMap)
            /\ \A k \in DOMAIN pre.collections : collections[k] = pre.collections[k]
            /\ txid = pre.txid

\* C12 witness: a second collection, with another name, has been inserted next
\* to the first one, which is still there as it was.
C12_Witness ==
    /\ Replied("insert_collection")
    /\ reply.value = Some(2)
    /\ 1 \in DOMAIN pre.collections
    /\ collections[2].name # pre.collections[1].name
    /\ collections[1] = pre.collections[1]

\* C13: set_name_of_collection, set_symbol_of_collection and
\* set_logo_of_collection fail as NotFound on an unknown collection and as
\* Unauthorized for a caller who is not a custodian of it; for a custodian they
\* replace exactly the named field: the other two metadata fields, the tokens,
\* the custodians, the operators, every other collection and the counter stay
\* as they were.
C13_MetadataSetters ==
    (pc = "replied" /\ last.op \in {"set_name_of_collection",
                                   "set_symbol_of_collection",
                                   "set_logo_of_collection"}) =>
        LET caller == last.caller
            c == last.args[1]
            v == last.args[2]
        IN  IF c \notin DOMAIN pre.collections THEN reply.status \in NotFound
            ELSE IF caller \notin pre.collections[c].custodians
                 THEN reply.status = Unauthorized
                 ELSE /\ Succeeded
                      /\ txid = pre.txid
                      /\ last.op = "set_name_of_collection" =>
                           collections = [pre.collections EXCEPT ![c].name = v]
                      /\ last.op = "set_symbol_of_collection" =>
                           collections = [pre.collections EXCEPT ![c].symbol = v]
                      /\ last.op = "set_logo_of_collection" =>
                           collections = [pre.collections EXCEPT ![c].logo = v]

\* C13 witness: a custodian has given a collection that holds a token a symbol
\* other than the one it had.
C13_Witness ==
    /\ Replied("set_symbol_of_collection")
    /\ Succeeded
    /\ collections[last.args[1]].symbol # pre.collections[last.args[1]].symbol
    /\ collections[last.args[1]].nfts # EmptyMap

\* C14: set_approval_for_all on an existing collection succeeds for every
\* caller, advances the counter by exactly one and returns the new value, also
\* when it changes no operator set: the operator is the caller, the operator is
\* anonymous with is_approved true, or an absent operator is removed.
C14_SetApprovalForAllCounts ==
    (Replied("set_approval_for_all") /\ last.args[1] \in DOMAIN pre.collections) =>
        /\ Succeeded
        /\ txid = pre.txid + 1
        /\ reply.value = Some(txid)

\* C14 witness: an operator that the caller never approved has been removed; the
\* caller's operator set is what it was and the counter has advanced.
C14_Witness ==
    /\ Replied("set_approval_for_all")
    /\ last.args[1] \in DOMAIN pre.collections
    /\ last.args[2] \notin {last.caller, ANONYMOUS}
    /\ last.args[3] = FALSE
    /\ last.args[2] \notin OperatorSet(pre.collections, last.args[1], last.caller)
    /\ OperatorSet(collections, last.args[1], last.caller) =
           OperatorSet(pre.collections, last.args[1], last.caller)
    /\ reply.value = Some(pre.txid + 1)

\* C15: is_approved_for_all(c, operator) returns true exactly when the operator
\* is in the operator set that collection c keeps for the caller.  So right after
\* caller A ran set_approval_for_all(c, op, true) with op neither A nor
\* anonymous, the query called by A answers true, and called by any other B it
\* answers by B's own set, which A's call did not change.
C15_IsApprovedForAll ==
    /\ (Replied("is_approved_for_all") /\ last.args[1] \in DOMAIN pre.collections) =>
          /\ Succeeded
          /\ reply.value =
                 Some(last.args[2] \in OperatorSet(pre.collections, last.args[1], last.caller))
    /\ (/\ Replied("set_approval_for_all")
        /\ last.args[1] \in DOMAIN pre.collections
        /\ last.args[3] = TRUE
        /\ last.args[2] \notin {last.caller, ANONYMOUS}) =>
          /\ is_approved_for_all_call(last.caller, last.args[1], last.args[2]).value
                 = Some(TRUE)
          /\ \A B \in Principals \ {last.caller} :
                 is_approved_for_all_call(B, last.args[1], last.args[2]).value =
                     Some(last.args[2] \in OperatorSet(pre.collections, last.args[1], B))

\* C15 witness: the query has answered true to a caller who approved the
\* operator, in a collection where it would answer false to another caller.
C15_Witness ==
    /\ Replied("is_approved_for_all")
    /\ reply.value = Some(TRUE)
    /\ \E B \in Principals \ {last.caller} :
           last.args[2] \notin OperatorSet(collections, last.args[1], B)

\* C16: transfer_from_to reports one error in a fixed order.  InvalidDestination
\* when `to` is anonymous, whatever the ids and the caller; otherwise NotFound
\* when the collection or the token is unknown; otherwise Unauthorized when the
\* caller is not the owner, the approved spender, an operator of `from` or a
\* custodian, also when `from` is not the owner; OwnerMismatch only for a caller
\* who passes that test while `from` is not the owner.
C16_TransferErrorOrder ==
    Replied("transfer_from_to") =>
        LET caller == last.caller
            c == last.args[1]
            t == last.args[2]
            from == last.args[3]
            to == last.args[4]
        IN  IF to = ANONYMOUS THEN reply.status = InvalidDestination
            ELSE IF ~TokenExists(pre.collections, c, t) THEN reply.status \in NotFound
            ELSE LET nft == pre.collections[c].nfts[t]
                     permitted == \/ caller = nft.owner
                                  \/ nft.approved = Some(caller)
                                  \/ caller \in OperatorSet(pre.collections, c, from)
                                  \/ caller \in pre.collections[c].custodians
                 IN  IF ~permitted THEN reply.status = Unauthorized
                     ELSE IF from # nft.owner THEN reply.status = OwnerMismatch
                     ELSE Succeeded

\* C16 witness: OwnerMismatch has been reported to a caller who is only an
\* operator of a `from` that does not own the token.
C16_Witness ==
    /\ Replied("transfer_from_to")
    /\ reply.status = OwnerMismatch
    /\ LET nft == pre.collections[last.args[1]].nfts[last.args[2]]
       IN  /\ nft.owner # last.caller
           /\ nft.approved # Some(last.caller)
           /\ last.caller \notin pre.collections[last.args[1]].custodians
           /\ last.caller \in OperatorSet(pre.collections, last.args[1], last.args[3])
           /\ nft.owner # last.args[3]

\* C17: when post_upgrade runs on a state that is not empty, every collection of
\* the blob is afterwards present under its saved key with its saved value, also
\* where that key was in use; every collection whose key is not in the blob is
\* kept as it was; and the counter is the saved counter, whatever it was before.
C17_RestoreMerges ==
    Replied("post_upgrade") =>
        \A saved \in SavedStates :
            pre_upgrade_call(saved.collections, saved.txid) = last.args[1] =>
                /\ DOMAIN collections = DOMAIN pre.collections \cup DOMAIN saved.collections
                /\ \A k \in DOMAIN saved.collections :
                       collections[k] = saved.collections[k]
                /\ \A k \in DOMAIN pre.collections \ DOMAIN saved.collections :
                       collections[k] = pre.collections[k]
                /\ txid = saved.txid

\* C17 witness: a blob has been restored over a state that held another
\* collection under the blob's key, a collection under a key the blob does not
\* have, and another counter.
C17_Witness ==
    /\ Replied("post_upgrade")
    /\ DOMAIN pre.collections = {1, 2}
    /\ DOMAIN from_slice(last.args[1]).collections = {1}
    /\ pre.collections[1] # collections[1]
    /\ pre.txid # txid

\* C18: a call of a public operation by an identity that is not the owner X of
\* token t, not t's approved spender, not in X's operator set in the collection
\* and not a custodian of it leaves t's owner and approved spender as they were
\* (a sequence of calls by a set G of such identities, taken one call at a time).
C18_OutsidersLeaveTokens ==
    (pc = "replied" /\ last.op \in UpdateOps \cup QueryOps) =>
        \A c \in DOMAIN pre.collections :
            \A t \in DOMAIN pre.collections[c].nfts :
                LET nft == pre.collections[c].nfts[t]
                    X == nft.owner
                    outsider == /\ last.caller # X
                                /\ nft.approved # Some(last.caller)
                                /\ last.caller \notin OperatorSet(pre.collections, c, X)
                                /\ last.caller \notin pre.collections[c].custodians
                IN  outsider =>
                        /\ collections[c].nfts[t].owner = X
                        /\ collections[c].nfts[t].approved = nft.approved

\* C19: a collection without custodians stays without custodians under every
\* public operation, a collection made by insert_collection has none, and an
\* upgrade keeps every custodian set; so from the empty initial state every
\* custodian set is empty for ever, unless a blob that holds custodians is
\* restored.  On a collection without custodians every set_name_of_collection,
\* set_symbol_of_collection, set_logo_of_collection,
\* insert_custodian_into_collection and remove_custodian_from_collection call
\* fails as Unauthorized, also after a custodian removed the last custodian.
C19_NoCustodiansForEver ==
    pc = "replied" =>
        /\ last.op \in UpdateOps \cup QueryOps =>
             /\ \A c \in DOMAIN pre.collections :
                    pre.collections[c].custodians = {} => collections[c].custodians = {}
             /\ \A c \in DOMAIN collections \ DOMAIN pre.collections :
                    collections[c].custodians = {}
        /\ last.op = "upgrade" =>
             /\ DOMAIN collections = DOMAIN pre.collections
             /\ \A c \in DOMAIN collections :
                    collections[c].custodians = pre.collections[c].custodians
        /\ (/\ last.op \in {"set_name_of_collection", "set_symbol_of_collection",
                            "set_logo_of_collection",
                            "insert_custodian_into_collection",
                            "remove_custodian_from_collection"}
            /\ last.args[1] \in DOMAIN pre.collections
            /\ pre.collections[last.args[1]].custodians = {}) =>
               reply.status = Unauthorized

\* C19 witness: the custodian who renamed a collection and then removed the
\* last custodian of it, itself, is refused when inserting a custodian again.
C19_Witness ==
    /\ Replied("insert_custodian_into_collection")
    /\ reply.status = Unauthorized
    /\ last.caller = 2
    /\ last.args[1] = 1
    /\ collections[1].custodians = {}
    /\ collections[1].nfts # EmptyMap
    /\ collections[1].name = "dao"

\* C20: no transfer, approve, burn, set_approval_for_all, custodian or metadata
\* call adds or removes a token record: the collections, the token ids of each,
\* total_supply_of_collection of each and total_supply are the same before and
\* after (a burnt token still counts).  In every state the canister is in
\* between two calls, the balances of all identities in a collection, anonymous
\* included, add up to its total_supply_of_collection, and after a successful
\* transfer with from # to the balance of `from` is one lower and the balance of
\* `to` one higher.
C20_TokenRecordsConserved ==
    /\ pc = "idle" =>
         \A c \in DOMAIN collections :
           /\ SumOfBalances(c, Principals) = total_supply_of_collection_call(c).value[1]
           /\ \A p \in Principals :
                  balance_of_user_call(c, p).value = Some(Balance(collections, c, p))
    /\ (pc = "replied" /\ last.op \in UpdateOps \ {"insert_collection"}) =>
           /\ DOMAIN collections = DOMAIN pre.collections
           /\ \A c \in DOMAIN collections :
                  /\ DOMAIN collections[c].nfts = DOMAIN pre.collections[c].nfts
                  /\ total_supply_of_collection_call(c).value =
                         Some(Cardinality(DOMAIN pre.collections[c].nfts))
           /\ total_supply_call.value =
                  Some(SumOfLens(pre.collections, DOMAIN pre.collections))
    /\ (Replied("transfer_from_to") /\ Succeeded /\ last.args[3] # last.args[4]) =>
           LET c == last.args[1]
               from == last.args[3]
               to == last.args[4]
           IN  /\ balance_of_user_call(c, from).value =
                      Some(Balance(pre.collections, c, from) - 1)
               /\ balance_of_user_call(c, to).value =
                      Some(Balance(pre.collections, c, to) + 1)

\* C20 witness: a token has been burnt in a collection of two tokens; both
\* records are still there and anonymous has a balance of one.
C20_Witness ==
    /\ Replied("burn")
    /\ Succeeded
    /\ Cardinality(DOMAIN collections[last.args[1]].nfts) = 2
    /\ total_supply_of_collection_call(last.args[1]).value = Some(2)
    /\ balance_of_user_call(last.args[1], ANONYMOUS).value = Some(1)

====
